---- MODULE Spec2Model ----
(***************************************************************************)
(* SkillSage: plan persistence, local/remote synchronisation and schema    *)
(* migration (PersistenceService, DriveService, AuthService).              *)
(*                                                                         *)
(* Plans are records [id, content, creationDate, dailyLogs]:               *)
(*   id           positive integer (the ISO timestamp used as identifier)  *)
(*   content      "L" written by the legacy local writer, "R" found in the *)
(*                remote document, "U" passed to savePlan by the UI        *)
(*   creationDate -1 property absent, 0 the empty string (present, falsy), *)
(*                n > 0 a timestamp                                        *)
(*   dailyLogs    "absent", "null" (present, falsy), "empty" ([], truthy), *)
(*                "logs" (a non-empty array)                               *)
(***************************************************************************)
EXTENDS Integers, Sequences, FiniteSets, TLC

VARIABLES
    initAuth,       \* AuthService.initAuth: "pending", "done", "failed"
    isInitialized,  \* AuthService.isInitialized
    tokenRequest,   \* a requestAccessToken popup is open
    tokenResponse,  \* AuthService.tokenResponse: 0 = null, else the token
    user,           \* AuthService.user: 0 = null, else the token its profile was fetched with
    fetches,        \* tokens of the fetchUserProfile calls in flight
    nextToken,      \* tokens handed out so far by the identity provider
    effSeen,        \* what the PersistenceService effect read on its last run
    effMig,         \* the effect's dependency on isMigrating: "untracked", "clean", "changed"
    plans,          \* PersistenceService.plans
    isMigrating,    \* PersistenceService.isMigrating
    local,          \* localStorage['skillSagePlans'] (the parsed text, see Raw)
    tasks,          \* asynchronous executions in flight: syncs and fire-and-forget writes
    gapiInit,       \* DriveService.gapiInitializationPromise: "none", "pending", "ready", "failed"
    fileId,         \* DriveService.fileId: 0 = null, else index into files
    files,          \* the remote files named skill-sage-plans.json, each a bare array of plans
    gapiToken,      \* gapi.client.getToken(): 0 = null, else the access token
    ops,            \* savePlan/deletePlan calls made so far
    overlap,        \* history: the ids passed to savePlan and to deletePlan since the
                    \* last sync started, while a sync was in flight
    appState,       \* AppComponent.appState
    currentPlan,    \* AppComponent.currentPlan: <<>> = null, else <<plan>>
    planConfig,     \* AppComponent.planConfig (see Config)
    gens,           \* executions of onAssessmentComplete in flight
    appEv,          \* history: the AppComponent step just taken
    genAI,          \* GeminiService.genAI: TRUE = a client was built, FALSE = undefined
    error,          \* GeminiService.error: "null" = null, else the message
    calls,          \* GeminiService operations awaiting the model's answer
    gemEv,          \* history: the GeminiService step just taken
    planState,      \* LearningDashboardComponent.planState (see TaskCounts)
    progress,       \* what the progress getter returned last: -1 = not read yet
    assessment,     \* the SkillAssessmentComponent instance (see Component)
    ev,             \* history: the step just taken and what it used
    mig             \* harness applying runMigrations to arbitrary stored values

vars == <<initAuth, isInitialized, tokenRequest, tokenResponse, user, fetches, nextToken,
          effSeen, effMig, plans, isMigrating, local, tasks, gapiInit, fileId, files,
          gapiToken, ops, overlap, appState, currentPlan, planConfig, gens, appEv,
          genAI, error, calls, gemEv, planState, progress, assessment, ev, mig>>

authVars == <<initAuth, isInitialized, tokenRequest, tokenResponse, user, fetches, nextToken>>
driveVars == <<gapiInit, fileId, files, gapiToken>>
appVars == <<appState, currentPlan, planConfig, gens, appEv>>
geminiVars == <<genAI, error, calls, gemEv>>
\* the state of the components and services beside persistence and AppComponent
dashVars == <<planState, progress>>
compVars == <<geminiVars, dashVars, assessment>>

\* ------------------------------------------------------------------ bounds
MaxId == 2        \* plan identifiers are 1..MaxId
MaxTokens == 1    \* access tokens the identity provider hands out
MaxOps == 1       \* savePlan/deletePlan calls the UI makes
MaxGens == 2      \* plan generations in flight at once
MaxCalls == 2     \* GeminiService operations awaiting the model at once
MaxTasks == 40    \* tasks of the plan the dashboard shows
MaxWrites == 2    \* savePlan/deletePlan calls in the specification of overlapping writes
MaxResponses == 3 \* submitResponse calls of one SkillAssessmentComponent
MaxSessions == 4  \* access tokens handed out in the specification of AuthService alone

\* --------------------------------------------------------------- constants
DATA_VERSION == 2

Ids == 1..MaxId

\* ------------------------------------------------------------------- plans
Plan(i, c, cd, dl) == [id |-> i, content |-> c, creationDate |-> cd, dailyLogs |-> dl]

\* a record written by the legacy (version 1) writer: no creationDate, no dailyLogs
LegacyPlan(i) == Plan(i, "L", -1, "absent")
\* a record of the remote document
RemotePlan(i) == Plan(i, "R", i, "empty")
\* a record the UI hands to savePlan (AppComponent builds it with creationDate = id)
UserPlan(i) == Plan(i, "U", i, "empty")

IdsOf(s) == {s[i].id : i \in DOMAIN s}

\* A value held where an array of plans is expected but that is no array:
\* `undefined`, or a JSON document that is an object. It is written as a
\* one-element sequence holding a marker, so that it compares with arrays; the
\* id 0 is no plan's id.
NonArray(tag) == <<[id |-> 0, content |-> tag, creationDate |-> 0, dailyLogs |-> "absent"]>>
Undefined == NonArray("undefined")
MalformedDoc == NonArray("object")
IsArray(v) == v \notin {Undefined, MalformedDoc}

\* sequences over 1..MaxId without repetition
DistinctIdSeqs == {s \in UNION {[1..n -> Ids] : n \in 0..MaxId} :
                      \A i, j \in DOMAIN s : i # j => s[i] # s[j]}

MapSeq(s, F(_)) == [i \in 1..Len(s) |-> F(s[i])]

RemoveAt(s, i) == SubSeq(s, 1, i - 1) \o SubSeq(s, i + 1, Len(s))

\* ------------------------------------------------- stored (JSON) values
\* The text of a localStorage entry, described by what JSON.parse makes of it:
\*   "absent"      getItem returns null
\*   "unparseable" JSON.parse throws
\*   "null", "number", "object" (an object without a version field)
\*   "envelope"    an object with a version field; hasPlans says whether it has plans
\*   "array"       a bare array of plans
Raw(k, v, h, ps) == [kind |-> k, version |-> v, hasPlans |-> h, plans |-> ps]

NoData == Raw("absent", 0, FALSE, <<>>)
BareArray(ps) == Raw("array", 0, FALSE, ps)
Envelope(v, ps) == Raw("envelope", v, TRUE, ps)
EnvelopeNoPlans(v) == Raw("envelope", v, FALSE, <<>>)

\* JSON.stringify({version, plans}) as persistPlansToLocalStorage writes it
StringifyContainer_Bare(v, ps) == BareArray(ps)
StringifyContainer(v, ps) == Envelope(v, ps)

\* the result of a call: it threw, or returned a value that is an array or undefined
Threw == [threw |-> TRUE, defined |-> FALSE, plans |-> <<>>]
Returned(ps) == [threw |-> FALSE, defined |-> TRUE, plans |-> ps]
ReturnedUndefined == [threw |-> FALSE, defined |-> FALSE, plans |-> Undefined]

\* plan => ({...plan, creationDate: plan.creationDate || plan.id, dailyLogs: plan.dailyLogs || []})
UpgradeToV2_Overwrite(plan) ==
    [plan EXCEPT !.creationDate = plan.id,
                 !.dailyLogs = IF plan.dailyLogs \in {"absent", "null"} THEN "empty"
                               ELSE plan.dailyLogs]
UpgradeToV2(plan) ==
    [plan EXCEPT !.creationDate = IF plan.creationDate > 0 THEN plan.creationDate ELSE plan.id,
                 !.dailyLogs = IF plan.dailyLogs \in {"absent", "null"} THEN "empty"
                               ELSE plan.dailyLogs]

\* PersistenceService.runMigrations on the value JSON.parse returned
RunMigrations(data) ==
    IF data.kind = "array"
    THEN Returned(MapSeq(data.plans, UpgradeToV2))
    ELSE IF data.kind = "envelope"
    THEN IF data.version < 2
         THEN IF data.hasPlans THEN Returned(MapSeq(data.plans, UpgradeToV2))
              ELSE Threw                      \* undefined.map(...)
         ELSE IF data.hasPlans THEN Returned(data.plans) ELSE ReturnedUndefined
    ELSE Returned(<<>>)

\* localData ? this.runMigrations(JSON.parse(localData)) : []
ReadLocalPlans(stored) ==
    IF stored.kind = "absent" THEN Returned(<<>>)
    ELSE IF stored.kind = "unparseable" THEN Threw
    ELSE RunMigrations(stored)

\* the value loadPlansFromLocalStorage installs in this.plans
LoadedFromLocal(stored) ==
    IF ReadLocalPlans(stored).threw THEN Returned(<<>>) ELSE ReadLocalPlans(stored)

\* [...drivePlans, ...localPlans.filter(p => !planIdsInDrive.has(p.id))]
MergePlans_LocalWins(drivePlans, localPlans) ==
    SelectSeq(drivePlans, LAMBDA p : p.id \notin IdsOf(localPlans)) \o localPlans
MergePlans(drivePlans, localPlans) ==
    drivePlans \o SelectSeq(localPlans, LAMBDA p : p.id \notin IdsOf(drivePlans))

\* savePlan's updater: replace the first plan with plan.id, else append
FindIndex(ps, id) ==
    IF \E i \in DOMAIN ps : ps[i].id = id
    THEN CHOOSE i \in DOMAIN ps : ps[i].id = id /\ \A j \in 1..(i - 1) : ps[j].id # id
    ELSE 0
Upsert_Append(ps, plan) == Append(ps, plan)
Upsert(ps, plan) ==
    IF FindIndex(ps, plan.id) > 0
    THEN [i \in 1..Len(ps) |-> IF i = FindIndex(ps, plan.id) THEN plan ELSE ps[i]]
    ELSE Append(ps, plan)

\* deletePlan's updater: plans.filter(p => p.id !== planId)
Without_Inverted(ps, id) == SelectSeq(ps, LAMBDA p : p.id = id)
Without(ps, id) == SelectSeq(ps, LAMBDA p : p.id # id)

\* ------------------------------------------------------------ history
\* ev records the step just taken: its name, whether it was a run of the
\* PersistenceService effect, for a finished sync the path it
\* took ("merge", "adopt", "fallback"), whether the session was active, whether
\* the step read the local slot, and for a finished sync whether its remote
\* read failed and whether it called savePlans, and whether the step threw to
\* its caller, and for savePlan/deletePlan the id it was called with
EvNone == [act |-> "Init", effect |-> FALSE, path |-> "", loggedIn |-> FALSE,
           readLocal |-> FALSE, readFailed |-> FALSE, wrote |-> FALSE, threw |-> FALSE,
           id |-> 0]
Ev(a) == [EvNone EXCEPT !.act = a]
\* any step that is neither of the effect, of a sync's start or end, nor of savePlan/deletePlan
EvOther == Ev("Other")

\* isLoggedIn = computed(() => !!this.tokenResponse() && !!this.user())
IsLoggedIn == tokenResponse # 0 /\ user # 0

\* overlap: nothing yet; savePlan(plan with id) and deletePlan(id) noted, the
\* later call on an id replacing the earlier one
NoOverlap == [saved |-> {}, deleted |-> {}]
NotedSave(o, id) == [saved |-> o.saved \cup {id}, deleted |-> o.deleted \ {id}]
NotedDelete(o, id) == [saved |-> o.saved \ {id}, deleted |-> o.deleted \cup {id}]

\* ------------------------------------------------------ asynchronous tasks
\* kind "sync": one execution of loadPlansFromDriveWithMigration, suspended in
\*              getPlans (op = "getPlans") or in savePlans (op = "savePlans")
\* kind "write": a savePlans issued by savePlan/deletePlan, with its .catch attached
\* pc: "ensure" awaiting ensureGapiReady, "list" awaiting files.list,
\*     "get" awaiting files.get, "upload" awaiting fetch (PATCH/POST)
\* tok: the access token the request in flight carries (0 = none)
\* slot, remote, readFailed, wrote, sess, active are history: the local slot at
\* the start, the content the remote held when it was read, a failed read, a
\* write issued, and for the request in flight AuthService.tokenResponse and
\* isLoggedIn as they were when it was issued, and whether the files.list of
\* the call in progress failed
SyncTask(slot, localPlans) ==
    [kind |-> "sync", op |-> "getPlans", pc |-> "ensure", fid |-> 0, payload |-> <<>>,
     localPlans |-> localPlans, drivePlans |-> <<>>,
     slot |-> slot, remote |-> <<>>, readFailed |-> FALSE, wrote |-> FALSE,
     tok |-> 0, sess |-> 0, active |-> FALSE, listFailed |-> FALSE]
WriteTask(ps) ==
    [kind |-> "write", op |-> "savePlans", pc |-> "ensure", fid |-> 0, payload |-> ps,
     localPlans |-> <<>>, drivePlans |-> <<>>,
     slot |-> NoData, remote |-> <<>>, readFailed |-> FALSE, wrote |-> TRUE,
     tok |-> 0, sess |-> 0, active |-> FALSE, listFailed |-> FALSE]

SyncsInFlight == {i \in DOMAIN tasks : tasks[i].kind = "sync"}
WritesInFlight == {i \in DOMAIN tasks : tasks[i].kind = "write"}

\* ensureGapiReady: the first call creates the initialization promise
EnsureGapiReady == IF gapiInit = "none" THEN "pending" ELSE gapiInit

\* Once ensureGapiReady has resolved, a call goes on without yielding to another
\* handler: _getFileId returns the cached handle and the request on the file is
\* issued, or files.list is issued.
\* The request of task t is issued: gapi.client sends it with the client's
\* token `tok`; savePlans reads the token for its Authorization header.
Issue(t, pc, tok) ==
    [t EXCEPT !.pc = pc, !.tok = tok, !.sess = tokenResponse, !.active = IsLoggedIn]

\* gapi.client.getToken().access_token with no token set: a TypeError, so
\* savePlans rejects before its fetch
UploadThrows(tok) == tok = 0

ProceedWith(t, tok) ==
    IF fileId # 0
    THEN Issue([t EXCEPT !.fid = fileId], IF t.op = "getPlans" THEN "get" ELSE "upload", tok)
    ELSE Issue(t, "list", tok)
Proceed(t) == ProceedWith(t, gapiToken)
\* the token initializeGapiClient leaves in the client, and the calls that were
\* waiting for it
TokenAtInit == IF tokenResponse # 0 THEN tokenResponse ELSE gapiToken
ProceedAtInit(t) == ProceedWith(t, TokenAtInit)

\* savePlans called when the client is ready and the cached handle is `handle`
SavePlansCall(t, handle) ==
    IF handle # 0 THEN Issue([t EXCEPT !.fid = handle], "upload", gapiToken)
    ELSE Issue(t, "list", gapiToken)

\* a call made now: suspended on the initialization promise, or already past it
Started(t) == IF gapiInit = "ready" THEN Proceed(t) ELSE t

\* ------------------------------------------------------------ AuthService
\* initAuth: await gsiReady; initializeGis() sets tokenClient and isInitialized
InitializeGis ==
    /\ initAuth = "pending"
    /\ initAuth' = "done"
    /\ isInitialized' = TRUE
    /\ ev' = EvOther
    /\ UNCHANGED <<tokenRequest, tokenResponse, user, fetches, nextToken, effSeen, effMig, plans,
                   isMigrating, local, tasks, driveVars, ops, mig, appVars, compVars, overlap>>

\* initAuth: gsiReady rejects, or google.accounts.oauth2 is missing
InitAuthFail ==
    /\ initAuth = "pending"
    /\ initAuth' = "failed"
    /\ ev' = EvOther
    /\ UNCHANGED <<isInitialized, tokenRequest, tokenResponse, user, fetches, nextToken,
                   effSeen, effMig, plans, isMigrating, local, tasks, driveVars, ops, mig, appVars, compVars, overlap>>

\* signIn: requestAccessToken once the token client exists
SignIn ==
    /\ isInitialized
    /\ ~tokenRequest
    /\ tokenRequest' = TRUE
    /\ ev' = EvOther
    /\ UNCHANGED <<initAuth, isInitialized, tokenResponse, user, fetches, nextToken,
                   effSeen, effMig, plans, isMigrating, local, tasks, driveVars, ops, mig, appVars, compVars, overlap>>

\* handleTokenResponse with an access token: store it and start fetchUserProfile
HandleTokenResponse ==
    /\ tokenRequest
    /\ tokenRequest' = FALSE
    /\ nextToken' = nextToken + 1
    /\ tokenResponse' = nextToken + 1
    /\ fetches' = fetches \cup {nextToken + 1}
    /\ ev' = EvOther
    /\ UNCHANGED <<initAuth, isInitialized, user, effSeen, effMig, plans, isMigrating, local,
                   tasks, driveVars, ops, mig, appVars, compVars, overlap>>

\* handleTokenResponse with an error, or error_callback (popup closed)
HandleTokenError ==
    /\ tokenRequest
    /\ tokenRequest' = FALSE
    /\ ev' = EvOther
    /\ UNCHANGED <<initAuth, isInitialized, tokenResponse, user, fetches, nextToken,
                   effSeen, effMig, plans, isMigrating, local, tasks, driveVars, ops, mig, appVars, compVars, overlap>>

\* fetchUserProfile(t) resolves with a profile: this.user.set(profile)
FetchUserProfileOk(t) ==
    /\ t \in fetches
    /\ fetches' = fetches \ {t}
    /\ user' = t
    /\ ev' = EvOther
    /\ UNCHANGED <<initAuth, isInitialized, tokenRequest, tokenResponse, nextToken,
                   effSeen, effMig, plans, isMigrating, local, tasks, driveVars, ops, mig, appVars, compVars, overlap>>

\* signOut: tokenResponse and user are cleared
SignOutEffect ==
    /\ tokenResponse' = 0
    /\ user' = 0

\* fetchUserProfile(t) fails (network error or !response.ok): this.signOut()
FetchUserProfileFail(t) ==
    /\ t \in fetches
    /\ fetches' = fetches \ {t}
    /\ SignOutEffect
    /\ ev' = EvOther
    /\ UNCHANGED <<initAuth, isInitialized, tokenRequest, nextToken,
                   effSeen, effMig, plans, isMigrating, local, tasks, driveVars, ops, mig, appVars, compVars, overlap>>

\* signOut from the UI (the button is shown while a session exists)
SignOut ==
    /\ tokenResponse # 0 \/ user # 0
    /\ SignOutEffect
    /\ ev' = EvOther
    /\ UNCHANGED <<initAuth, isInitialized, tokenRequest, fetches, nextToken,
                   effSeen, effMig, plans, isMigrating, local, tasks, driveVars, ops, mig, appVars, compVars, overlap>>

\* ----------------------------------------------------- PersistenceService
\* What the effect of the constructor branches on: isInitialized(), then isLoggedIn()
SignalState == IF ~isInitialized THEN "uninit" ELSE IF IsLoggedIn THEN "in" ELSE "out"

\* The effect is scheduled when a signal it read on its last run has changed.
\* Besides isInitialized and isLoggedIn that includes isMigrating, which
\* loadPlansFromDriveWithMigration reads (and writes) synchronously inside the
\* effect's reactive context before its first await.
EffectDirty == effSeen # SignalState \/ effMig = "changed"

\* this.isMigrating.set(false) in the finally block, seen from the effect
MigAfterFinally == IF effMig = "untracked" THEN "untracked" ELSE "changed"

\* loadPlansFromLocalStorage: parse, migrate and install; [] on any failure
LoadPlansFromLocalStorage ==
    /\ plans' = LoadedFromLocal(local).plans
    /\ UNCHANGED <<isMigrating, local, tasks, driveVars>>

\* if (this.isMigrating()) return;
InFlightGuard_Off == FALSE
InFlightGuard == isMigrating

\* the synchronous head of loadPlansFromDriveWithMigration, up to the first await
LoadPlansFromDriveWithMigration ==
    IF InFlightGuard
    THEN /\ ev' = [Ev("SyncDropped") EXCEPT !.effect = TRUE, !.loggedIn = TRUE]
         /\ effMig' = "clean"
         /\ UNCHANGED <<plans, isMigrating, local, tasks, driveVars, overlap>>
    ELSE IF ReadLocalPlans(local).threw
    THEN \* JSON.parse or runMigrations threw: catch, loadPlansFromLocalStorage, finally
         /\ ev' = [Ev("SyncDone") EXCEPT !.effect = TRUE, !.path = "fallback",
                                         !.loggedIn = TRUE, !.readLocal = TRUE]
         /\ effMig' = "changed"
         /\ LoadPlansFromLocalStorage
         /\ overlap' = NoOverlap
    ELSE IF gapiInit = "failed"
    THEN \* getPlans rejects on the cached rejected promise: catch, finally
         /\ ev' = [Ev("SyncDone") EXCEPT !.effect = TRUE, !.path = "fallback",
                                         !.loggedIn = TRUE, !.readLocal = TRUE,
                                         !.readFailed = TRUE]
         /\ effMig' = "changed"
         /\ LoadPlansFromLocalStorage
         /\ overlap' = NoOverlap
    ELSE /\ isMigrating' = TRUE
         /\ effMig' = "changed"
         /\ gapiInit' = EnsureGapiReady
         /\ tasks' = Append(tasks, Started(SyncTask(local, ReadLocalPlans(local).plans)))
         /\ ev' = [Ev("SyncStart") EXCEPT !.effect = TRUE, !.loggedIn = TRUE,
                                          !.readLocal = TRUE]
         /\ overlap' = NoOverlap
         /\ UNCHANGED <<plans, local, fileId, files, gapiToken>>

\* if (!this.authService.isInitialized()) return;
Initialized_NoGate == TRUE
Initialized == isInitialized

\* if (this.authService.isLoggedIn()) ... else ...
SessionActive_TokenOnly == tokenResponse # 0
SessionActive == IsLoggedIn

\* effect(() => { if (!isInitialized()) return; if (isLoggedIn()) sync else load })
PersistenceEffect ==
    /\ EffectDirty
    /\ effSeen' = SignalState
    /\ UNCHANGED <<authVars, ops, mig, appVars, compVars>>
    /\ IF ~Initialized
       THEN /\ ev' = [Ev("EffectGate") EXCEPT !.effect = TRUE]
            /\ effMig' = "untracked"
            /\ UNCHANGED <<plans, isMigrating, local, tasks, driveVars, overlap>>
       ELSE IF SessionActive
       THEN LoadPlansFromDriveWithMigration
       ELSE /\ ev' = [Ev("LoadFromLocal") EXCEPT !.effect = TRUE, !.readLocal = TRUE]
            /\ effMig' = "untracked"
            /\ LoadPlansFromLocalStorage
            /\ UNCHANGED overlap

\* what a finished sync leaves in the history
SyncDoneEv(t, path) ==
    [Ev("SyncDone") EXCEPT !.path = path, !.loggedIn = IsLoggedIn,
                           !.readLocal = (path = "fallback"),
                           !.readFailed = t.readFailed, !.wrote = t.wrote]

\* finally { this.isMigrating.set(false) } reached through the catch block
FlagAfterCatch_Kept == isMigrating
FlagAfterCatch == FALSE

\* catch (e) { this.loadPlansFromLocalStorage() } finally { isMigrating.set(false) }
\* `rest` are the tasks that stay in flight
SyncCatch_NoFallback(t, rest) ==
    /\ isMigrating' = FALSE
    /\ effMig' = MigAfterFinally
    /\ tasks' = rest
    /\ ev' = SyncDoneEv(t, "fallback")
    /\ UNCHANGED <<plans, local>>
SyncCatch(t, rest) ==
    /\ plans' = LoadedFromLocal(local).plans
    /\ isMigrating' = FlagAfterCatch
    /\ effMig' = MigAfterFinally
    /\ tasks' = rest
    /\ ev' = SyncDoneEv(t, "fallback")
    /\ UNCHANGED local

\* if (localPlans.length > 0)
HasLocalPlans_Always(t) == TRUE
HasLocalPlans(t) == Len(t.localPlans) > 0

\* this.plans.set(drivePlans): the collection is replaced, not merged into
Adopted_KeepCurrent(drivePlans) == MergePlans(plans, drivePlans)
Adopted(drivePlans) == drivePlans

\* after `await this.driveService.getPlans()` returned drivePlans
AfterGetPlans(i, t, drivePlans) ==
    IF ~IsArray(t.localPlans)
    THEN \* localPlans is undefined: localPlans.length throws
         SyncCatch(t, RemoveAt(tasks, i))
    ELSE IF HasLocalPlans(t) /\ ~IsArray(drivePlans)
    THEN \* drivePlans is no array: drivePlans.map throws
         SyncCatch(t, RemoveAt(tasks, i))
    ELSE IF HasLocalPlans(t) /\ fileId # 0 /\ UploadThrows(gapiToken)
    THEN \* savePlans(mergedPlans) rejects at once
         SyncCatch([t EXCEPT !.wrote = TRUE], RemoveAt(tasks, i))
    ELSE IF HasLocalPlans(t)
    THEN \* mergedPlans; await this.driveService.savePlans(mergedPlans)
         /\ tasks' = [tasks EXCEPT ![i] =
                        SavePlansCall([t EXCEPT !.op = "savePlans", !.fid = 0,
                                  !.drivePlans = drivePlans,
                                  !.payload = MergePlans(drivePlans, t.localPlans),
                                  !.wrote = TRUE], fileId)]
         /\ ev' = Ev("SyncSavePlans")
         /\ UNCHANGED <<plans, isMigrating, local, effMig>>
    ELSE \* this.plans.set(drivePlans); finally
         /\ plans' = Adopted(drivePlans)
         /\ isMigrating' = FALSE
         /\ effMig' = MigAfterFinally
         /\ tasks' = RemoveAt(tasks, i)
         /\ ev' = SyncDoneEv(t, "adopt")
         /\ UNCHANGED local

\* after `await this.driveService.savePlans(mergedPlans)` resolved
AfterSavePlans_KeepLocal(i, t) ==
    /\ plans' = t.payload
    /\ isMigrating' = FALSE
    /\ effMig' = MigAfterFinally
    /\ tasks' = RemoveAt(tasks, i)
    /\ ev' = SyncDoneEv(t, "merge")
    /\ UNCHANGED local
AfterSavePlans(i, t) ==
    /\ local' = NoData
    /\ plans' = t.payload
    /\ isMigrating' = FALSE
    /\ effMig' = MigAfterFinally
    /\ tasks' = RemoveAt(tasks, i)
    /\ ev' = SyncDoneEv(t, "merge")

\* a task moves to its next await
Continue(i, t) ==
    /\ tasks' = [tasks EXCEPT ![i] = t]
    /\ ev' = EvOther
    /\ UNCHANGED <<plans, isMigrating, local, effMig>>

\* The savePlans call of savePlan/deletePlan settles. A rejection goes to
\* .catch(e => console.error(...)); a non-2xx answer resolves the call unseen.
\* Either way nothing else is done: no rollback of this.plans, no second call.
WriteEnds_Retry(i, failed) ==
    /\ tasks' = IF failed THEN [tasks EXCEPT ![i].pc = "upload"] ELSE RemoveAt(tasks, i)
    /\ ev' = IF failed THEN Ev("WriteFailed") ELSE EvOther
    /\ UNCHANGED <<plans, isMigrating, local, effMig>>
WriteEnds(i, failed) ==
    /\ tasks' = RemoveAt(tasks, i)
    /\ ev' = IF failed THEN Ev("WriteFailed") ELSE EvOther
    /\ UNCHANGED <<plans, isMigrating, local, effMig>>

\* the promise of task i resolves with `result`
Resolve(i, t, result) ==
    IF t.kind = "write"
    THEN WriteEnds(i, FALSE)
    ELSE IF t.op = "getPlans" THEN AfterGetPlans(i, t, result)
    ELSE AfterSavePlans(i, t)

\* the promise of task i rejects
Reject(i, t) ==
    IF t.kind = "write"
    THEN WriteEnds(i, TRUE)
    ELSE SyncCatch(t, RemoveAt(tasks, i))

\* ------------------------------------------------------------ DriveService
\* initializeGapiClient resolves (gapi.load, gapi.client.init): every call
\* suspended in ensureGapiReady goes on
GapiInitOk ==
    /\ gapiInit = "pending"
    /\ gapiInit' = "ready"
    \* const token = this.authService.tokenResponse(); if (token) setToken(token)
    /\ gapiToken' = TokenAtInit
    /\ tasks' = MapSeq(tasks, ProceedAtInit)
    /\ ev' = EvOther
    /\ UNCHANGED <<authVars, effSeen, effMig, plans, isMigrating, local, fileId,
                   files, ops, mig, appVars, compVars, overlap>>

\* The effect of DriveService's constructor: if (!isLoggedIn() && isGapiReady())
\* gapi.client.setToken(null). It is scheduled by a change of isLoggedIn or of
\* isGapiReady and runs after the handler that made the change; a run that
\* finds nothing to clear changes nothing.
DriveEffect ==
    /\ ~IsLoggedIn
    /\ gapiInit = "ready"
    /\ gapiToken # 0
    /\ gapiToken' = 0
    /\ ev' = Ev("DriveEffect")
    /\ UNCHANGED <<authVars, effSeen, effMig, plans, isMigrating, local, tasks, gapiInit,
                   fileId, files, ops, mig, appVars, compVars, overlap>>

\* the gapi script fails to load or gapi.client.init rejects: the cached promise
\* stays rejected and every suspended call rejects; a sync among them runs its
\* catch and finally, a write its .catch
GapiInitFail ==
    /\ gapiInit = "pending"
    /\ gapiInit' = "failed"
    /\ UNCHANGED <<authVars, effSeen, fileId, files, gapiToken, ops, mig, appVars, compVars, overlap>>
    /\ IF SyncsInFlight # {}
       THEN LET t == tasks[CHOOSE i \in SyncsInFlight : TRUE] IN
            SyncCatch([t EXCEPT !.readFailed = TRUE], <<>>)
       ELSE /\ tasks' = <<>>
            /\ ev' = IF tasks # <<>> THEN Ev("WriteFailed") ELSE EvOther
            /\ UNCHANGED <<plans, isMigrating, local, effMig>>

\* Drive serves a request only if it carries an access token
Authorized(t) == t.tok # 0

\* gapi.client.drive.files.list answers: the first file's id is cached and
\* returned, or null when there is none; an error is caught and gives null
TaskList(i, outcome) ==
    LET t == tasks[i]
        found == outcome = "ok" /\ Len(files) > 0
        fid == IF found THEN 1 ELSE 0
    IN
    /\ t.pc = "list"
    /\ outcome = "ok" => Authorized(t)
    /\ fileId' = IF found THEN 1 ELSE fileId
    /\ UNCHANGED <<authVars, effSeen, gapiInit, files, gapiToken, ops, mig, appVars, compVars, overlap>>
    /\ IF t.op = "savePlans"
       THEN IF UploadThrows(gapiToken) THEN Reject(i, t)
            ELSE Continue(i, Issue([t EXCEPT !.fid = fid, !.listFailed = (outcome = "error")],
                                   "upload", gapiToken))
       ELSE IF found
       THEN Continue(i, Issue([t EXCEPT !.fid = fid], "get", gapiToken))
       ELSE \* getPlans: if (!fileId) return []
            Resolve(i, [t EXCEPT !.readFailed = (outcome = "error")], <<>>)

\* gapi.client.drive.files.get answers: the content, or [] on 404 and on any error
TaskGet(i, outcome) ==
    LET t == tasks[i] IN
    /\ t.pc = "get"
    /\ outcome = "ok" => Authorized(t)
    /\ UNCHANGED <<authVars, effSeen, driveVars, ops, mig, appVars, compVars, overlap>>
    /\ IF outcome = "ok"
       THEN Resolve(i, [t EXCEPT !.remote = files[t.fid]], files[t.fid])
       ELSE Resolve(i, [t EXCEPT !.readFailed = TRUE], <<>>)

\* savePlans' fetch settles: PATCH of the file `fid`, or POST of a new file whose
\* id is cached. fetch resolves on a non-2xx answer ("httpError") and rejects on
\* a transport failure; a missing gapi token throws before the request ("reject").
TaskUpload(i, outcome) ==
    LET t == tasks[i] IN
    /\ t.pc = "upload"
    /\ outcome = "ok" => Authorized(t)
    /\ UNCHANGED <<authVars, effSeen, gapiInit, gapiToken, ops, mig, appVars, compVars, overlap>>
    /\ IF outcome = "reject"
       THEN UNCHANGED <<fileId, files>> /\ Reject(i, t)
       ELSE IF t.fid # 0
       THEN /\ files' = IF outcome = "ok" THEN [files EXCEPT ![t.fid] = t.payload] ELSE files
            /\ UNCHANGED fileId
            /\ IF t.kind = "write" /\ outcome = "httpError"
               THEN WriteEnds(i, TRUE) ELSE Resolve(i, t, <<>>)
       ELSE /\ files' = IF outcome = "ok" THEN Append(files, t.payload) ELSE files
            \* this.fileId.set(newFile.id): undefined when the answer is an error body
            /\ fileId' = IF outcome = "ok" THEN Len(files) + 1 ELSE 0
            /\ IF t.kind = "write" /\ outcome = "httpError"
               THEN WriteEnds(i, TRUE) ELSE Resolve(i, t, <<>>)

\* ------------------------------------------------- savePlan and deletePlan
\* savePlans rejects before any request: the initialization promise is
\* rejected, or the handle is cached and the client holds no token
RejectsAtOnce ==
    \/ gapiInit = "failed"
    \/ gapiInit = "ready" /\ fileId # 0 /\ UploadThrows(gapiToken)

\* the branch of savePlan/deletePlan taken with the updater's result `updated`
PersistUpdated_AlwaysLocal(updated) ==
    /\ plans' = updated
    /\ local' = StringifyContainer(DATA_VERSION, updated)
    /\ tasks' = IF ~IsLoggedIn \/ RejectsAtOnce THEN tasks
                ELSE Append(tasks, Started(WriteTask(updated)))
    /\ gapiInit' = IF IsLoggedIn THEN EnsureGapiReady ELSE gapiInit
    /\ UNCHANGED <<fileId, files, gapiToken>>
PersistUpdated(updated) ==
    IF IsLoggedIn
    THEN \* this.driveService.savePlans(updatedPlans).catch(...)
         /\ plans' = updated
         /\ tasks' = IF RejectsAtOnce THEN tasks   \* logged by the .catch
                     ELSE Append(tasks, Started(WriteTask(updated)))
         /\ gapiInit' = EnsureGapiReady
         /\ UNCHANGED <<local, fileId, files, gapiToken>>
    ELSE \* this.persistPlansToLocalStorage(updatedPlans)
         /\ plans' = updated
         /\ local' = StringifyContainer(DATA_VERSION, updated)
         /\ UNCHANGED <<tasks, driveVars>>

\* plans.findIndex / plans.filter on a value that is no array: the updater
\* throws out of plans.update, nothing is set or persisted
UpdaterThrows(act, id) ==
    /\ ev' = [Ev(act) EXCEPT !.loggedIn = IsLoggedIn, !.threw = TRUE, !.id = id]
    /\ UNCHANGED <<plans, local, tasks, driveVars>>

SavePlan(plan) ==
    /\ IF IsArray(plans)
       THEN /\ PersistUpdated(Upsert(plans, plan))
            /\ ev' = [Ev("SavePlan") EXCEPT !.loggedIn = IsLoggedIn, !.wrote = IsLoggedIn,
                                            !.id = plan.id]
       ELSE UpdaterThrows("SavePlan", plan.id)
    /\ overlap' = IF IsArray(plans) /\ SyncsInFlight # {} THEN NotedSave(overlap, plan.id)
                  ELSE overlap
    /\ ops' = ops + 1
    /\ UNCHANGED <<authVars, effSeen, effMig, isMigrating, mig>>

DeletePlan(planId) ==
    /\ IF IsArray(plans)
       THEN /\ PersistUpdated(Without(plans, planId))
            /\ ev' = [Ev("DeletePlan") EXCEPT !.loggedIn = IsLoggedIn, !.wrote = IsLoggedIn,
                                              !.id = planId]
       ELSE UpdaterThrows("DeletePlan", planId)
    /\ overlap' = IF IsArray(plans) /\ SyncsInFlight # {} THEN NotedDelete(overlap, planId)
                  ELSE overlap
    /\ ops' = ops + 1
    /\ UNCHANGED <<authVars, effSeen, effMig, isMigrating, mig>>

\* ------------------------------------------------------------ AppComponent
\* planConfig: {} has no skill; onSkillSelect sets the skill, onPlanConfigured
\* adds the rest of the configuration
Skills == {"S1", "S2"}
Config(skill, configured) == [skill |-> skill, configured |-> configured]
EmptyConfig == Config("", FALSE)

AppEvNone == [act |-> "Init", outcome |-> "", skill |-> "", left |-> FALSE]
AppEv(a) == [AppEvNone EXCEPT !.act = a]

\* One execution of onAssessmentComplete: finalConfig, the await it is
\* suspended in ("plan": generateLearningPlan, "suggestions": getSkillSuggestions),
\* and as history whether onGoHome ran since it started
Generation(config) == [finalConfig |-> config, pc |-> "plan", left |-> FALSE]

\* appState, currentPlan and planConfig as the field initialisers set them
AppInit ==
    /\ appState = "home"
    /\ currentPlan = <<>>
    /\ planConfig = EmptyConfig
    /\ gens = <<>>
    /\ appEv = AppEvNone

\* everything outside AppComponent and PersistenceService.savePlan is left alone
AppFrame ==
    UNCHANGED <<authVars, effSeen, effMig, plans, isMigrating, local, tasks, driveVars,
                ops, ev, mig, compVars, overlap>>

OnStartNewSkill ==
    /\ appState = "home"
    /\ appState' = "selection"
    /\ appEv' = AppEv("StartNewSkill")
    /\ UNCHANGED <<currentPlan, planConfig, gens>>
    /\ AppFrame

OnSkillSelect(skill) ==
    /\ appState = "selection"
    /\ planConfig' = Config(skill, FALSE)
    /\ appState' = "setup"
    /\ appEv' = AppEv("SkillSelect")
    /\ UNCHANGED <<currentPlan, gens>>
    /\ AppFrame

OnPlanConfigured ==
    /\ appState = "setup"
    /\ planConfig' = [planConfig EXCEPT !.configured = TRUE]
    /\ appState' = "assessment"
    /\ appEv' = AppEv("PlanConfigured")
    /\ UNCHANGED <<currentPlan, gens>>
    /\ AppFrame

\* onAssessmentComplete up to `await generateLearningPlan(finalConfig, summary)`
StartGeneration ==
    /\ appState' = "generating"
    /\ gens' = Append(gens, Generation(planConfig))
    /\ appEv' = AppEv("AssessmentComplete")
    /\ UNCHANGED <<currentPlan, planConfig>>
OnAssessmentComplete ==
    /\ appState = "assessment"
    /\ Len(gens) < MaxGens
    /\ StartGeneration
    /\ AppFrame

\* What generateLearningPlan resolves with: "plan" an object whose modules is
\* an array, "null", "noModules" an object whose modules is no array,
\* "primitive" a truthy value that is no object (JSON.parse of a number)
Outcomes == {"plan", "null", "noModules", "primitive"}

\* if (planData && !Array.isArray(planData.modules)) planData = null; if (planData)
Usable_Unchecked(outcome) == outcome # "null"
Usable(outcome) == outcome = "plan"

\* generateLearningPlan resolves
GenerateSettles(i, outcome) ==
    /\ gens[i].pc = "plan"
    /\ appEv' = [AppEv("Generated") EXCEPT !.outcome = outcome, !.left = gens[i].left,
                                           !.skill = gens[i].finalConfig.skill]
    /\ IF Usable(outcome)
       THEN \* await this.geminiService.getSkillSuggestions(finalConfig.skill)
            /\ gens' = [gens EXCEPT ![i].pc = "suggestions"]
            /\ UNCHANGED appState
       ELSE /\ gens' = RemoveAt(gens, i)
            /\ appState' = IF appState = "generating" THEN "setup" ELSE appState
    /\ UNCHANGED <<currentPlan, planConfig>>
    /\ AppFrame

\* the configuration the new plan is built from
PlanSkill_Current(g) == planConfig.skill
PlanSkill(g) == g.finalConfig.skill

\* newPlan: id and creationDate are the time of completion, skill is finalConfig.skill
GeneratedPlan(i, skill) == [UserPlan(i) EXCEPT !.content = skill]

\* getSkillSuggestions resolves (it returns [] on any failure): savePlan(newPlan),
\* currentPlan.set(newPlan), appState.set('dashboard')
SuggestionsSettle(i) ==
    LET g == gens[i]
        newPlan == GeneratedPlan(ops + 1, PlanSkill(g))
    IN
    /\ g.pc = "suggestions"
    /\ ops < MaxOps
    /\ SavePlan(newPlan)
    /\ currentPlan' = <<newPlan>>
    /\ appState' = "dashboard"
    /\ gens' = RemoveAt(gens, i)
    /\ appEv' = [AppEv("PlanReady") EXCEPT !.left = g.left, !.skill = g.finalConfig.skill]
    /\ UNCHANGED <<planConfig, compVars>>

\* onGoHome: the executions in flight are not touched
OnGoHome ==
    /\ planConfig' = EmptyConfig
    /\ currentPlan' = <<>>
    /\ appState' = "home"
    /\ gens' = [i \in DOMAIN gens |-> [gens[i] EXCEPT !.left = TRUE]]
    /\ appEv' = AppEv("GoHome")
    /\ AppFrame

NextApp ==
    \/ OnStartNewSkill
    \/ \E skill \in Skills : OnSkillSelect(skill)
    \/ OnPlanConfigured
    \/ OnAssessmentComplete
    \/ \E i \in DOMAIN gens : \E o \in Outcomes : GenerateSettles(i, o)
    \/ \E i \in DOMAIN gens : SuggestionsSettle(i)
    \/ OnGoHome

\* --------------------------------------------- SkillAssessmentComponent
\* One instance of the component. rendered: it is in the view, so its buttons
\* can be used and AppComponent listens to assessmentComplete; calls: assessSkill
\* calls awaited by submitResponse; timers: setTimeout callbacks of live mode
\* not run yet; responses, emitted: history, the submitResponse calls that
\* passed their guards and the assessmentComplete events AppComponent received
Component(rendered) ==
    [rendered |-> rendered, isAssessing |-> FALSE, isLiveMode |-> FALSE,
     calls |-> 0, timers |-> 0, responses |-> 0, emitted |-> 0]

\* no assessment screen has been shown
AssessInit == assessment = Component(FALSE)

AssessFrame ==
    UNCHANGED <<authVars, effSeen, effMig, plans, isMigrating, local, tasks, driveVars,
                ops, ev, mig, geminiVars, dashVars, overlap>>

\* stopLiveMode: isLiveMode.set(false); recognition and speech are cancelled.
\* The timer set by submitResponse is left running.
StopLiveMode(c) == [c EXCEPT !.isLiveMode = FALSE]

\* toggleLiveMode
ToggleLiveMode ==
    /\ assessment.rendered
    /\ assessment' = [assessment EXCEPT !.isLiveMode = ~assessment.isLiveMode]
    /\ UNCHANGED appVars
    /\ AssessFrame

\* this.assessmentComplete.emit(...) by the component in state c. While the
\* component is in the view AppComponent.onAssessmentComplete runs up to its
\* first await; the output of a destroyed component has no listener.
Emit(c) ==
    IF c.rendered
    THEN /\ assessment' = [c EXCEPT !.emitted = c.emitted + 1]
         /\ StartGeneration
    ELSE /\ assessment' = c
         /\ UNCHANGED appVars

\* skipAssessment: stopLiveMode, emit; no guard
SkipAssessment ==
    /\ assessment.rendered
    /\ Emit(StopLiveMode(assessment))
    /\ AssessFrame

\* submitResponse up to `await this.geminiService.assessSkill(...)`
SubmitResponse ==
    /\ assessment.rendered
    /\ ~assessment.isAssessing
    /\ assessment' = [assessment EXCEPT !.isAssessing = TRUE,
                                        !.calls = assessment.calls + 1,
                                        !.responses = assessment.responses + 1]
    /\ UNCHANGED appVars
    /\ AssessFrame

\* assessSkill resolves and submitResponse runs to its end; `complete`: the
\* answer includes [[ASSESSMENT_COMPLETE]]
AssessSettles(complete) ==
    LET c == [assessment EXCEPT !.calls = assessment.calls - 1, !.isAssessing = FALSE] IN
    /\ assessment.calls > 0
    /\ IF complete /\ assessment.isLiveMode
       THEN \* setTimeout(() => { stopLiveMode(); emit }, 3000)
            /\ assessment' = [c EXCEPT !.timers = c.timers + 1]
            /\ UNCHANGED appVars
       ELSE IF complete
       THEN Emit(c)
       ELSE /\ assessment' = c
            /\ UNCHANGED appVars
    /\ AssessFrame

\* the callback of the 3-second timer runs
DelayedEmit ==
    /\ assessment.timers > 0
    /\ Emit(StopLiveMode([assessment EXCEPT !.timers = assessment.timers - 1]))
    /\ AssessFrame

\* Change detection, scheduled by appState.set and run in a later task, takes
\* the component out of the view once appState is no longer 'assessment':
\* ngOnDestroy calls stopLiveMode; no timer is cleared, no call is cancelled.
DestroyAssessment ==
    /\ assessment.rendered
    /\ appState # "assessment"
    /\ assessment' = [StopLiveMode(assessment) EXCEPT !.rendered = FALSE]
    /\ UNCHANGED appVars
    /\ AssessFrame

NextAssessment ==
    \/ ToggleLiveMode
    \/ Len(gens) < MaxGens /\ SkipAssessment
    \/ assessment.responses < MaxResponses /\ SubmitResponse
    \/ \E complete \in BOOLEAN : Len(gens) < MaxGens /\ AssessSettles(complete)
    \/ Len(gens) < MaxGens /\ DelayedEmit
    \/ DestroyAssessment

\* planState = signal(null); the getter has not been read
DashInit ==
    /\ planState = <<>>
    /\ progress = -1

\* ----------------------------------------------------------- GeminiService
\* the public asynchronous operations of the service
Operations ==
    {"assessSkill", "generateLearningPlan", "regeneratePlan", "convertPlanToFramework",
     "generateLevelPreview", "generateQuiz", "getSkillSuggestions",
     "getHolisticSuggestions", "findResources", "getSageResponse",
     "generateSystemResponse", "getHomeSageResponse"}

\* what an operation returns when checkConfig() is false
Default(op) ==
    CASE op \in {"generateLearningPlan", "regeneratePlan", "convertPlanToFramework"} -> "null"
      [] op \in {"generateQuiz", "getSkillSuggestions", "getHolisticSuggestions",
                 "findResources"} -> "[]"
      [] op = "assessSkill" -> "API Key missing. Please configure the app."
      [] op = "generateLevelPreview" -> "API Config missing"
      [] op = "getSageResponse" -> "I am unable to connect to my brain (API Key missing)."
      [] op = "generateSystemResponse" -> "I cannot build a system without my API Key."
      [] op = "getHomeSageResponse" -> "I am currently offline (API Key missing)."

\* the operations that run this.error.set(null) after the check, before the
\* request (convertPlanToFramework through its call of generateLearningPlan)
Clears(op) == op \notin {"generateLevelPreview", "generateQuiz"}

\* the message the catch block of an operation stores in error; "" when the
\* catch block leaves error alone
FailureError(op) ==
    CASE op = "assessSkill" -> "Failed to process assessment. Please try again."
      [] op \in {"generateLearningPlan", "convertPlanToFramework"} ->
            "Failed to generate the learning plan due to an invalid format from the AI. Please try again."
      [] op = "regeneratePlan" ->
            "Failed to regenerate the learning plan due to an invalid format from the AI. Please try again."
      [] op = "findResources" -> "Failed to find resources. The AI might be busy."
      [] op = "getSageResponse" ->
            "The Skill Sage is pondering... and ran into an issue. Try again."
      [] op = "generateSystemResponse" ->
            "The Systems Coach is thinking... and ran into an issue. Try again."
      [] op = "getHomeSageResponse" ->
            "The Advisor Sage is pondering... and ran into an issue. Try again."
      [] OTHER -> ""

\* gemEv: the operation, what it returned ("" while it awaits the model,
\* "value" for an answer of the model, "fallback" for what a catch block
\* returns, else the default), and whether the model was invoked
GemEvNone == [op |-> "", result |-> "", invoked |-> FALSE]
GemEv(op, result, invoked) == [op |-> op, result |-> result, invoked |-> invoked]

\* the constructor with and without process.env.API_KEY
GeminiInit(apiKey) ==
    /\ genAI = apiKey
    /\ error = IF apiKey THEN "null" ELSE "MISSING_API_KEY"
    /\ calls = <<>>
    /\ gemEv = GemEvNone

\* the services beside persistence as the other specifications start them
CompInit == GeminiInit(TRUE) /\ DashInit /\ AssessInit

GeminiFrame ==
    UNCHANGED <<authVars, effSeen, effMig, plans, isMigrating, local, tasks, driveVars,
                ops, ev, mig, appVars, dashVars, assessment, overlap>>

\* checkConfig(): if (!this.genAI) { error.set('MISSING_API_KEY'); return false }
CheckConfig_Skipped == TRUE
CheckConfig == genAI

\* an operation is called and runs up to its first await
GeminiCall(op) ==
    /\ IF ~CheckConfig
       THEN /\ error' = "MISSING_API_KEY"
            /\ gemEv' = GemEv(op, Default(op), FALSE)
            /\ UNCHANGED calls
       ELSE /\ Len(calls) < MaxCalls
            /\ error' = IF Clears(op) THEN "null" ELSE error
            /\ calls' = Append(calls, op)
            /\ gemEv' = GemEv(op, "", TRUE)
    /\ UNCHANGED genAI
    /\ GeminiFrame

\* getHolisticSuggestions with no plans: if (plans.length === 0) return []
HolisticNoPlans ==
    /\ IF ~CheckConfig
       THEN /\ error' = "MISSING_API_KEY"
            /\ gemEv' = GemEv("getHolisticSuggestions", "[]", FALSE)
       ELSE /\ error' = "null"
            /\ gemEv' = GemEv("getHolisticSuggestions", "[]", FALSE)
    /\ UNCHANGED <<genAI, calls>>
    /\ GeminiFrame

\* the model answers call i, or the request or the parsing of its answer
\* throws into the catch block (without a client this.genAI!.models throws)
GeminiSettle(i, ok) ==
    LET op == calls[i] IN
    /\ ok => genAI
    /\ calls' = RemoveAt(calls, i)
    /\ error' = IF ~ok /\ FailureError(op) # "" THEN FailureError(op) ELSE error
    /\ gemEv' = GemEv(op, IF ok THEN "value" ELSE "fallback", genAI)
    /\ UNCHANGED genAI
    /\ GeminiFrame

NextGemini ==
    \/ \E op \in Operations : GeminiCall(op)
    \/ HolisticNoPlans
    \/ \E i \in DOMAIN calls : \E ok \in BOOLEAN : GeminiSettle(i, ok)

\* ----------------------------------------------- LearningDashboardComponent
\* planState is <<>> for null, else <<[total, completed]>>: the number of
\* entries of allTasks (every task of every day of every module, a missing
\* modules, dailyTasks or tasks counting as []) and how many of them have
\* completed set.
TaskCounts(total, completed) == <<[total |-> total, completed |-> completed]>>

\* IEEE 754 double precision. A non-negative double is [bits, frac]: bits is a
\* sequence over {0, 1}, most significant first, without leading zeros, of at
\* most Precision entries, and the value is the number bits spell times
\* 2^(-frac); <<>> spells zero.
Precision == 53

RECURSIVE NatBits(_)
NatBits(n) == IF n = 0 THEN <<>> ELSE NatBits(n \div 2) \o <<n % 2>>

RECURSIVE BitsNat(_)
BitsNat(b) == IF b = <<>> THEN 0 ELSE 2 * BitsNat(SubSeq(b, 1, Len(b) - 1)) + b[Len(b)]

\* b + 1
RECURSIVE Inc(_)
Inc(b) ==
    IF b = <<>> THEN <<1>>
    ELSE IF b[Len(b)] = 0 THEN [b EXCEPT ![Len(b)] = 1]
    ELSE Inc(SubSeq(b, 1, Len(b) - 1)) \o <<0>>

\* round to nearest, ties to even: b spells the exact value up to 2^(-frac),
\* sticky says that the exact value has more below
RoundToDouble(b, frac, sticky) ==
    IF Len(b) <= Precision THEN [bits |-> b, frac |-> frac]
    ELSE LET keep == SubSeq(b, 1, Precision)
             rest == SubSeq(b, Precision + 1, Len(b))
             more == sticky \/ \E i \in 2..Len(rest) : rest[i] = 1
             up == rest[1] = 1 /\ (more \/ keep[Precision] = 1)
             k == IF up THEN Inc(keep) ELSE keep
         IN IF Len(k) > Precision
            THEN [bits |-> SubSeq(k, 1, Precision), frac |-> frac - Len(rest) - 1]
            ELSE [bits |-> k, frac |-> frac - Len(rest)]

\* the first n bits of r / t after the binary point (0 <= r < t), and the
\* remainder they leave
RECURSIVE Expand(_, _, _)
Expand(r, t, n) ==
    IF n = 0 THEN <<>> ELSE <<(2 * r) \div t>> \o Expand((2 * r) % t, t, n - 1)
RECURSIVE Remainder(_, _, _)
Remainder(r, t, n) == IF n = 0 THEN r ELSE (2 * Remainder(r, t, n - 1)) % t
RECURSIVE LeadingZeros(_, _)
LeadingZeros(r, t) == IF 2 * r >= t THEN 0 ELSE 1 + LeadingZeros(2 * r, t)

\* c / t for integers 0 <= c <= t, t > 0
DivDouble(c, t) ==
    IF c = 0 THEN [bits |-> <<>>, frac |-> 0]
    ELSE IF c = t THEN [bits |-> <<1>>, frac |-> 0]
    ELSE LET z == LeadingZeros(c, t)
             n == z + Precision + 1
         IN RoundToDouble(SubSeq(Expand(c, t, n), z + 1, n), n, Remainder(c, t, n) # 0)

\* b * k + carry for a small integer k
RECURSIVE MulCarry(_, _, _)
MulCarry(b, k, carry) ==
    IF carry = 0 /\ b = <<>> THEN <<>>
    ELSE IF b = <<>> THEN NatBits(carry)
    ELSE MulCarry(SubSeq(b, 1, Len(b) - 1), k, (b[Len(b)] * k + carry) \div 2)
             \o <<(b[Len(b)] * k + carry) % 2>>

\* x * k for a double x and a small integer k
MulDouble(x, k) == RoundToDouble(MulCarry(x.bits, k, 0), x.frac, FALSE)

\* Math.round(x): the nearest integer, a tie going up
MathRound(x) ==
    LET n == Len(x.bits) - x.frac       \* bits before the binary point
    IN (IF n > 0 THEN BitsNat(SubSeq(x.bits, 1, n)) ELSE 0)
       + (IF n + 1 \in DOMAIN x.bits THEN x.bits[n + 1] ELSE 0)

\* get progress(): Math.round((completedTasks / allTasks.length) * 100)
Progress(plan) ==
    IF plan = <<>> THEN 0
    ELSE IF plan[1].total = 0 THEN 0
    ELSE MathRound(MulDouble(DivDouble(plan[1].completed, plan[1].total), 100))

\* the plans the dashboard may be given
DashboardPlans ==
    {<<>>} \cup UNION {{TaskCounts(t, c) : c \in 0..t} : t \in 0..MaxTasks}

DashboardFrame ==
    UNCHANGED <<authVars, effSeen, effMig, plans, isMigrating, local, tasks, driveVars,
                ops, ev, mig, appVars, geminiVars, assessment, overlap>>

\* the effect of the constructor: planState.set(copy of the input plan)
SetPlanState(plan) ==
    /\ planState' = plan
    /\ progress' = -1
    /\ DashboardFrame

\* the template reads the progress getter
GetProgress ==
    /\ progress' = Progress(planState)
    /\ UNCHANGED planState
    /\ DashboardFrame

NextProgress ==
    \/ \E plan \in DashboardPlans : SetPlanState(plan)
    \/ GetProgress

\* ------------------------------------------------------------ specification
MigIdle == [pc |-> "idle", input |-> NoData, out |-> Returned(<<>>), again |-> Returned(<<>>)]

\* what the browser holds before the application starts
InitLocal == {NoData} \cup {BareArray(MapSeq(s, LegacyPlan)) : s \in DistinctIdSeqs}
InitFiles == {<<>>} \cup {<<MapSeq(s, RemotePlan)>> : s \in DistinctIdSeqs}

Init ==
    /\ initAuth = "pending"
    /\ isInitialized = FALSE
    /\ tokenRequest = FALSE
    /\ tokenResponse = 0
    /\ user = 0
    /\ fetches = {}
    /\ nextToken = 0
    /\ effSeen = "none"
    /\ effMig = "untracked"
    /\ plans = <<>>
    /\ isMigrating = FALSE
    /\ local \in InitLocal
    /\ tasks = <<>>
    /\ gapiInit = "none"
    /\ fileId = 0
    /\ files \in InitFiles
    /\ gapiToken = 0
    /\ ops = 0
    /\ overlap = NoOverlap
    /\ AppInit
    /\ CompInit
    /\ ev = EvNone
    /\ mig = MigIdle

Next ==
    \/ InitializeGis
    \/ InitAuthFail
    \/ nextToken < MaxTokens /\ SignIn
    \/ nextToken < MaxTokens /\ HandleTokenResponse
    \/ HandleTokenError
    \/ \E t \in 1..MaxTokens : FetchUserProfileOk(t)
    \/ \E t \in 1..MaxTokens : FetchUserProfileFail(t)
    \/ SignOut
    \/ PersistenceEffect
    \/ GapiInitOk
    \/ GapiInitFail
    \/ DriveEffect
    \/ \E i \in DOMAIN tasks : \E o \in {"ok", "error"} : TaskList(i, o)
    \/ \E i \in DOMAIN tasks : \E o \in {"ok", "error"} : TaskGet(i, o)
    \/ \E i \in DOMAIN tasks : \E o \in {"ok", "httpError", "reject"} : TaskUpload(i, o)
    \/ \E id \in Ids : ops < MaxOps /\ SavePlan(UserPlan(id)) /\ UNCHANGED <<appVars, compVars>>
    \/ \E id \in Ids : ops < MaxOps /\ DeletePlan(id) /\ UNCHANGED <<appVars, compVars>>

Spec == Init /\ [][Next]_vars

\* Every remote call of a sync in flight settles: the initialization promise
\* resolves or rejects, and the request the sync awaits is answered or fails.
GapiInitSettles == GapiInitOk \/ GapiInitFail
SyncCallSettles ==
    \E i \in SyncsInFlight :
        \/ \E o \in {"ok", "error"} : TaskList(i, o)
        \/ \E o \in {"ok", "error"} : TaskGet(i, o)
        \/ \E o \in {"ok", "httpError", "reject"} : TaskUpload(i, o)

\* sessions and syncs, without calls of savePlan and deletePlan
NextSync ==
    \/ InitializeGis
    \/ InitAuthFail
    \/ nextToken < MaxTokens /\ SignIn
    \/ nextToken < MaxTokens /\ HandleTokenResponse
    \/ HandleTokenError
    \/ \E t \in 1..MaxTokens : FetchUserProfileOk(t)
    \/ \E t \in 1..MaxTokens : FetchUserProfileFail(t)
    \/ SignOut
    \/ PersistenceEffect
    \/ GapiInitOk
    \/ GapiInitFail
    \/ DriveEffect
    \/ \E i \in DOMAIN tasks : \E o \in {"ok", "error"} : TaskList(i, o)
    \/ \E i \in DOMAIN tasks : \E o \in {"ok", "error"} : TaskGet(i, o)
    \/ \E i \in DOMAIN tasks : \E o \in {"ok", "httpError", "reject"} : TaskUpload(i, o)

SpecSettling ==
    Init /\ [][NextSync]_vars /\ WF_vars(GapiInitSettles) /\ WF_vars(SyncCallSettles)

\* The same system started on corrupt data: a local slot whose text does not
\* parse or parses to an unrecognised shape, a remote document that is no array
CorruptLocal ==
    {Raw(k, 0, FALSE, <<>>) : k \in {"unparseable", "null", "object"}}
    \cup {EnvelopeNoPlans(v) : v \in {1, DATA_VERSION}}
InitLocalCorrupt == CorruptLocal \cup {NoData, BareArray(<<LegacyPlan(1)>>)}
InitFilesCorrupt == {<<>>, <<MalformedDoc>>, << <<RemotePlan(1), RemotePlan(2)>> >>}

InitCorrupt ==
    /\ initAuth = "pending"
    /\ isInitialized = FALSE
    /\ tokenRequest = FALSE
    /\ tokenResponse = 0
    /\ user = 0
    /\ fetches = {}
    /\ nextToken = 0
    /\ effSeen = "none"
    /\ effMig = "untracked"
    /\ plans = <<>>
    /\ isMigrating = FALSE
    /\ local \in InitLocalCorrupt
    /\ tasks = <<>>
    /\ gapiInit = "none"
    /\ fileId = 0
    /\ files \in InitFilesCorrupt
    /\ gapiToken = 0
    /\ ops = 0
    /\ overlap = NoOverlap
    /\ AppInit
    /\ CompInit
    /\ ev = EvNone
    /\ mig = MigIdle

SpecCorrupt == InitCorrupt /\ [][Next]_vars

\* AppComponent over a PersistenceService with no session and nothing stored
InitApp ==
    /\ initAuth = "pending"
    /\ isInitialized = FALSE
    /\ tokenRequest = FALSE
    /\ tokenResponse = 0
    /\ user = 0
    /\ fetches = {}
    /\ nextToken = 0
    /\ effSeen = "none"
    /\ effMig = "untracked"
    /\ plans = <<>>
    /\ isMigrating = FALSE
    /\ local = NoData
    /\ tasks = <<>>
    /\ gapiInit = "none"
    /\ fileId = 0
    /\ files = <<>>
    /\ gapiToken = 0
    /\ ops = 0
    /\ overlap = NoOverlap
    /\ AppInit
    /\ CompInit
    /\ ev = EvNone
    /\ mig = MigIdle

SpecApp == InitApp /\ [][NextApp]_vars

\* Overlapping remote writes: the session is active, the gapi client is ready
\* and a sync has adopted the remote document; the user calls savePlan and
\* deletePlan, and every remote call succeeds.
InitWrites ==
    /\ initAuth = "done"
    /\ isInitialized = TRUE
    /\ tokenRequest = FALSE
    /\ tokenResponse = 1
    /\ user = 1
    /\ fetches = {}
    /\ nextToken = 1
    /\ effSeen = "in"
    /\ effMig = "changed"
    /\ isMigrating = FALSE
    /\ local = NoData
    /\ tasks = <<>>
    /\ gapiInit = "ready"
    /\ files \in InitFiles
    /\ fileId = Len(files)
    /\ plans = IF files = <<>> THEN <<>> ELSE files[1]
    /\ gapiToken = 1
    /\ ops = 0
    /\ overlap = NoOverlap
    /\ AppInit
    /\ CompInit
    /\ ev = [Ev("SyncDone") EXCEPT !.path = "adopt", !.loggedIn = TRUE]
    /\ mig = MigIdle

NextWrites ==
    \/ \E id \in Ids : ops < MaxWrites /\ SavePlan(UserPlan(id)) /\ UNCHANGED <<appVars, compVars>>
    \/ \E id \in Ids : ops < MaxWrites /\ DeletePlan(id) /\ UNCHANGED <<appVars, compVars>>
    \/ \E i \in DOMAIN tasks : TaskList(i, "ok")
    \/ \E i \in DOMAIN tasks : TaskUpload(i, "ok")

SpecWrites == InitWrites /\ [][NextWrites]_vars

\* One assessment: the configuration is complete and the assessment screen
\* has been rendered
InitAssessment ==
    /\ initAuth = "pending"
    /\ isInitialized = FALSE
    /\ tokenRequest = FALSE
    /\ tokenResponse = 0
    /\ user = 0
    /\ fetches = {}
    /\ nextToken = 0
    /\ effSeen = "none"
    /\ effMig = "untracked"
    /\ plans = <<>>
    /\ isMigrating = FALSE
    /\ local = NoData
    /\ tasks = <<>>
    /\ gapiInit = "none"
    /\ fileId = 0
    /\ files = <<>>
    /\ gapiToken = 0
    /\ ops = 0
    /\ overlap = NoOverlap
    /\ appState = "assessment"
    /\ currentPlan = <<>>
    /\ \E skill \in Skills : planConfig = Config(skill, TRUE)
    /\ gens = <<>>
    /\ appEv = AppEv("PlanConfigured")
    /\ GeminiInit(TRUE)
    /\ DashInit
    /\ assessment = Component(TRUE)
    /\ ev = EvNone
    /\ mig = MigIdle

SpecAssessment == InitAssessment /\ [][NextAssessment]_vars

\* AuthService alone, over several sign-ins
NextAuth ==
    \/ InitializeGis
    \/ InitAuthFail
    \/ nextToken < MaxSessions /\ SignIn
    \/ nextToken < MaxSessions /\ HandleTokenResponse
    \/ HandleTokenError
    \/ \E t \in 1..MaxSessions : FetchUserProfileOk(t)
    \/ \E t \in 1..MaxSessions : FetchUserProfileFail(t)
    \/ SignOut

SpecAuth == InitApp /\ [][NextAuth]_vars

\* GeminiService alone, built with and without an API key
InitGemini ==
    /\ initAuth = "pending"
    /\ isInitialized = FALSE
    /\ tokenRequest = FALSE
    /\ tokenResponse = 0
    /\ user = 0
    /\ fetches = {}
    /\ nextToken = 0
    /\ effSeen = "none"
    /\ effMig = "untracked"
    /\ plans = <<>>
    /\ isMigrating = FALSE
    /\ local = NoData
    /\ tasks = <<>>
    /\ gapiInit = "none"
    /\ fileId = 0
    /\ files = <<>>
    /\ gapiToken = 0
    /\ ops = 0
    /\ overlap = NoOverlap
    /\ AppInit
    /\ \E apiKey \in BOOLEAN : GeminiInit(apiKey)
    /\ DashInit
    /\ AssessInit
    /\ ev = EvNone
    /\ mig = MigIdle

SpecGemini == InitGemini /\ [][NextGemini]_vars

\* the dashboard's progress getter on every plan it may be given
SpecProgress == InitApp /\ [][NextProgress]_vars

\* ------------------------------------------------- runMigrations harness
\* Stored values handed to runMigrations: bare arrays and envelopes of any
\* version, with plans lacking or carrying creationDate and dailyLogs, and the
\* malformed shapes.
CreationDates(i) == {-1, 0, i, i + 1}
DailyLogValues == {"absent", "null", "empty", "logs"}

StoredPlanSeqs(s) ==
    {[k \in DOMAIN s |-> Plan(s[k], "L", cd[k], dl[k])] :
        cd \in {f \in [DOMAIN s -> -1..(MaxId + 1)] :
                    \A k \in DOMAIN s : f[k] \in CreationDates(s[k])},
        dl \in [DOMAIN s -> DailyLogValues]}

Versions == 0..(DATA_VERSION + 1)

MigInputs(s) ==
    {BareArray(ps) : ps \in StoredPlanSeqs(s)}
    \cup {Envelope(v, ps) : v \in Versions, ps \in StoredPlanSeqs(s)}
    \cup {EnvelopeNoPlans(v) : v \in Versions}
    \cup {Raw(k, 0, FALSE, <<>>) : k \in {"null", "number", "object"}}

InitMig ==
    /\ initAuth = "pending"
    /\ isInitialized = FALSE
    /\ tokenRequest = FALSE
    /\ tokenResponse = 0
    /\ user = 0
    /\ fetches = {}
    /\ nextToken = 0
    /\ effSeen = "none"
    /\ effMig = "untracked"
    /\ plans = <<>>
    /\ isMigrating = FALSE
    /\ local = NoData
    /\ tasks = <<>>
    /\ gapiInit = "none"
    /\ fileId = 0
    /\ files = <<>>
    /\ gapiToken = 0
    /\ ops = 0
    /\ overlap = NoOverlap
    /\ AppInit
    /\ CompInit
    /\ ev = EvNone
    /\ \E s \in DistinctIdSeqs : \E d \in MigInputs(s) :
           mig = [MigIdle EXCEPT !.pc = "start", !.input = d]

\* runMigrations(data)
MigApply ==
    /\ mig.pc = "start"
    /\ mig' = [mig EXCEPT !.pc = "applied", !.out = RunMigrations(mig.input)]
    /\ UNCHANGED <<authVars, effSeen, effMig, plans, isMigrating, local, tasks, driveVars,
                   ops, ev, appVars, compVars, overlap>>

\* runMigrations on its own output, stored again as a version-1 bare array
MigAgain ==
    /\ mig.pc = "applied"
    /\ ~mig.out.threw /\ mig.out.defined
    /\ mig' = [mig EXCEPT !.pc = "done", !.again = RunMigrations(BareArray(mig.out.plans))]
    /\ UNCHANGED <<authVars, effSeen, effMig, plans, isMigrating, local, tasks, driveVars,
                   ops, ev, appVars, compVars, overlap>>

NextMig == MigApply \/ MigAgain

SpecMig == InitMig /\ [][NextMig]_vars

\* ================================================================== claims

\* a sync that ends in this step, and the path it ends on
SyncEnds(path) == ev'.act = "SyncDone" /\ ev'.path = path

\* the sync executions in flight, and the one in flight (there is at most one)
TheSync == tasks[CHOOSE i \in SyncsInFlight : TRUE]

\* the local slot as it was when the sync that ends in this step started
SlotAtStart == IF SyncsInFlight = {} THEN local ELSE TheSync.slot

\* C1: a sync with a non-empty local collection whose remote read succeeded
\* hands to the remote store, and installs in memory, the remote plans in their
\* order followed by the local plans whose id is not in the remote collection,
\* in local order; on an id collision the remote record is the one kept.
C1_NewFromLocal(remote, localPlans) ==
    SelectSeq(localPlans, LAMBDA p : \A k \in DOMAIN remote : remote[k].id # p.id)
C1_Expected(remote, localPlans) == remote \o C1_NewFromLocal(remote, localPlans)
C2_FallbackEqualsLocalLoad ==
    [][(ev'.act = "SyncDone" /\ ev'.readFailed) =>
         /\ \/ plans' = LoadedFromLocal(SlotAtStart).plans
            \/ plans' = LoadedFromLocal(local).plans
         /\ (local = SlotAtStart \/ ev'.path = "fallback") =>
               plans' = LoadedFromLocal(local).plans
         /\ ~isMigrating' /\ SyncsInFlight' = {}]_vars

\* C2 witness: the client failed to initialise during a sync over a local slot
\* holding [A]; the catch installed the migrated [A] and left the slot alone
C2_Witness ==
    /\ ev.act = "SyncDone" /\ ev.path = "fallback" /\ ev.readFailed
    /\ gapiInit = "failed"
    /\ local = BareArray(<<LegacyPlan(1)>>)
    /\ plans = <<UpgradeToV2(LegacyPlan(1))>>
    /\ ~isMigrating

C4_NoAutomaticRerun ==
    [][(ev'.effect /\ ev'.act \in {"SyncStart", "SyncDone", "LoadFromLocal"}) =>
          effSeen # SignalState]_vars

\* C5: once initialized, every run of the effect takes exactly one of the two
\* paths, chosen by the session: loadPlansFromDriveWithMigration is invoked when
\* the session is active (it starts a sync, or returns at its in-flight guard),
\* loadPlansFromLocalStorage when it is not; and the effect is pending whenever
\* the signals differ from what it last acted on.
C5_EffectDispatch ==
    /\ [][(ev'.effect /\ isInitialized) =>
            IF IsLoggedIn
            THEN /\ ev'.act \in {"SyncStart", "SyncDropped", "SyncDone"}
                 /\ ev'.act = "SyncStart" => Cardinality(SyncsInFlight') = 1 /\ isMigrating'
                 /\ ev'.act # "SyncDone" => plans' = plans
            ELSE /\ ev'.act = "LoadFromLocal"
                 /\ plans' = LoadedFromLocal(local).plans
                 /\ UNCHANGED <<tasks, isMigrating, local, gapiInit, fileId, files>>]_vars
    /\ [](isInitialized /\ effSeen # SignalState => ENABLED PersistenceEffect)

\* C5 witness: the session was active, the effect ran and a sync is now in flight
C5_Witness ==
    /\ ev.effect /\ ev.act = "SyncStart"
    /\ IsLoggedIn /\ effSeen = "in"
    /\ Cardinality(SyncsInFlight) = 1

\* C6: while isInitialized is false the effect has taken neither path: no read
\* of the local slot, no sync, no remote call, the flag is clear, and the
\* in-memory collection is what savePlan/deletePlan alone made of it.
C6_InitializationGate ==
    ~isInitialized =>
       /\ ~ev.readLocal
       /\ ev.act \notin {"SyncStart", "SyncDropped", "SyncDone", "SyncSavePlans", "LoadFromLocal"}
       /\ tasks = <<>> /\ gapiInit = "none" /\ ~isMigrating
       /\ ops = 0 => plans = <<>>

\* C6 witness: the effect has run on the uninitialized provider, with data in
\* the local slot, and loaded nothing
C6_Witness ==
    /\ ~isInitialized
    /\ ev.effect /\ ev.act = "EffectGate"
    /\ local = BareArray(<<LegacyPlan(1), LegacyPlan(2)>>)
    /\ plans = <<>>

\* C7: a sync that found no local plans and whose remote read succeeded
\* installs exactly the remote collection (the content of the file it read, or
\* nothing when there is no file), calls no savePlans, changes no remote file
\* and leaves the local slot as it is.
C7_AdoptRemote ==
    [][(ev'.act = "SyncDone" /\ ~ev'.readFailed /\ SyncsInFlight # {}
            /\ Len(TheSync.localPlans) = 0) =>
          /\ ev'.path = "adopt"
          /\ TheSync.pc = "get" => plans' = files[TheSync.fid]
          /\ TheSync.pc = "list" => files = <<>> /\ plans' = <<>>
          /\ ~TheSync.wrote /\ ~ev'.wrote
          /\ UNCHANGED <<files, local>>]_vars

\* C7 witness: with an empty local slot the remote [X, Y] was installed unwritten
C7_Witness ==
    /\ ev.act = "SyncDone" /\ ev.path = "adopt" /\ ~ev.readFailed /\ ~ev.wrote
    /\ plans = <<RemotePlan(2), RemotePlan(1)>>
    /\ files = <<plans>>
    /\ local = NoData

\* C8: a sync that ends on the merge path leaves the local slot absent, and
\* the slot is removed only in the step in which a sync's savePlans, already
\* handed the merged collection, resolves.
C8_ClearAfterRemoteWrite ==
    /\ [][SyncEnds("merge") => local' = NoData]_vars
    /\ [][(local # NoData /\ local' = NoData) =>
            /\ SyncEnds("merge")
            /\ SyncsInFlight # {}
            /\ TheSync.op = "savePlans" /\ TheSync.pc = "upload" /\ TheSync.wrote
            /\ plans' = TheSync.payload]_vars

\* C8 witness: a merge has just ended, the file holds the merged plans and the
\* local slot is gone
C8_Witness ==
    /\ ev.act = "SyncDone" /\ ev.path = "merge" /\ ev.wrote
    /\ local = NoData
    /\ Len(plans) = 2 /\ Len(files) = 1 /\ files[1] = plans

\* C9: savePlan/deletePlan with an active session update the in-memory
\* collection and call the remote savePlans with it, leaving the local slot
\* alone; with no session they update the collection and write the version-2
\* envelope of it to the local slot, making no remote call.
C9_WriteOwnership ==
    [][ev'.act \in {"SavePlan", "DeletePlan"} =>
          /\ ev'.act = "SavePlan" => \E id \in Ids : plans' = Upsert(plans, UserPlan(id))
          /\ ev'.act = "DeletePlan" => \E id \in Ids : plans' = Without(plans, id)
          /\ IF IsLoggedIn
             THEN /\ local' = local
                  /\ ev'.wrote
                  /\ ~RejectsAtOnce =>
                        /\ Len(tasks') = Len(tasks) + 1
                        /\ tasks'[Len(tasks')].kind = "write"
                        /\ tasks'[Len(tasks')].payload = plans'
             ELSE /\ local' = Envelope(DATA_VERSION, plans')
                  /\ ~ev'.wrote
                  /\ UNCHANGED <<tasks, gapiInit, fileId, files>>]_vars

\* C9 witness: a plan was just saved in an active session: a remote write of
\* the updated collection is in flight and the local slot is still absent
C9_Witness ==
    /\ ev.act = "SavePlan" /\ ev.loggedIn
    /\ local = NoData
    /\ plans = <<RemotePlan(1), UserPlan(2)>>
    /\ \E i \in WritesInFlight : tasks[i].payload = plans

\* C10 (as stated): on a bare array or an envelope of a version below 2,
\* runMigrations keeps the plans and their order, fills creationDate with id
\* and dailyLogs with [] where the property is missing, leaves every present
\* property untouched, and is idempotent.
C10_Covers(d) == d.kind = "array" \/ (d.kind = "envelope" /\ d.version < 2 /\ d.hasPlans)
C10_SamePlans ==
    /\ ~mig.out.threw /\ mig.out.defined
    /\ Len(mig.out.plans) = Len(mig.input.plans)
    /\ \A k \in DOMAIN mig.input.plans :
          /\ mig.out.plans[k].id = mig.input.plans[k].id
          /\ mig.out.plans[k].content = mig.input.plans[k].content
C10_Idempotent == mig.pc = "done" => mig.again = mig.out
C10_PresentUntouched ==
    (mig.pc \in {"applied", "done"} /\ C10_Covers(mig.input)) =>
       /\ C10_SamePlans
       /\ \A k \in DOMAIN mig.input.plans :
             LET p == mig.input.plans[k]
                 q == mig.out.plans[k]
             IN /\ q.creationDate = IF p.creationDate = -1 THEN p.id ELSE p.creationDate
                /\ q.dailyLogs = IF p.dailyLogs = "absent" THEN "empty" ELSE p.dailyLogs
       /\ C10_Idempotent

\* C10 (amended): as above, but a property counts as missing when it is absent
\* or falsy (creationDate "", dailyLogs null); truthy properties are untouched.
C10_FalsyCoalesced ==
    (mig.pc \in {"applied", "done"} /\ C10_Covers(mig.input)) =>
       /\ C10_SamePlans
       /\ \A k \in DOMAIN mig.input.plans :
             LET p == mig.input.plans[k]
                 q == mig.out.plans[k]
             IN /\ q.creationDate = IF p.creationDate \in {-1, 0} THEN p.id
                                    ELSE p.creationDate
                /\ q.dailyLogs = IF p.dailyLogs \in {"absent", "null"} THEN "empty"
                                 ELSE p.dailyLogs
       /\ C10_Idempotent

\* C10 witness: a version-1 envelope whose first plan lacks both properties and
\* whose second carries both has been upgraded, and upgraded again
C10_Witness ==
    /\ mig.pc = "done"
    /\ mig.input = Envelope(1, <<Plan(2, "L", -1, "absent"), Plan(1, "L", 2, "logs")>>)
    /\ mig.out.plans = <<Plan(2, "L", 2, "empty"), Plan(1, "L", 2, "logs")>>
    /\ mig.again = mig.out

\* C11: on every malformed input (null, a number, an object without a version
\* field, an envelope with a version but no plans) runMigrations returns the
\* empty collection and does not throw.
C11_Malformed(d) ==
    d.kind \in {"null", "number", "object"} \/ (d.kind = "envelope" /\ ~d.hasPlans)
C11_MalformedYieldsEmpty ==
    (mig.pc \in {"applied", "done"} /\ C11_Malformed(mig.input)) =>
        mig.out = Returned(<<>>)

\* C12: corrupt local plans data (text that does not parse, or an unrecognised
\* shape) behaves like an empty local slot on both paths: loadPlansFromLocalStorage
\* installs the empty collection, and a sync started on it whose remote read
\* succeeds goes the way of empty local data and installs the remote collection.
C12_CorruptLikeEmpty ==
    [][/\ (ev'.act = "LoadFromLocal" /\ local \in CorruptLocal) => plans' = <<>>
       /\ (ev'.act = "SyncDone" /\ ~ev'.readFailed /\ SlotAtStart \in CorruptLocal) =>
             /\ ev'.path = "adopt"
             /\ SyncsInFlight # {}
             /\ plans' = IF TheSync.pc = "get" THEN files[TheSync.fid] ELSE <<>>]_vars

\* C13: a remote document that is no array of plans is treated as the empty
\* collection: the sync that read it does not end in its catch, and it leaves
\* in memory a sequence of plans, never the raw malformed value.
C13_MalformedRemoteIsEmpty ==
    [][(/\ ev'.act = "SyncDone" /\ ~ev'.readFailed
        /\ SyncsInFlight # {}
        /\ TheSync.op = "getPlans" /\ TheSync.pc = "get"
        /\ files[TheSync.fid] = MalformedDoc) =>
          /\ IsArray(plans')
          /\ ev'.path # "fallback"]_vars

\* C14: every value written to the local plans slot is the version-2 envelope
\* of the updated in-memory collection, written by savePlan/deletePlan, never
\* a bare array; so the slot is always absent, legacy data the system did not
\* write, or a version-2 envelope with plans.
C14_WritesEnvelope ==
    /\ [][(local' # local /\ local' # NoData) =>
             /\ ev'.act \in {"SavePlan", "DeletePlan"}
             /\ local' = Envelope(DATA_VERSION, plans')]_vars
    /\ [](\/ local = NoData
          \/ local \in InitLocal
          \/ local.kind = "envelope" /\ local.version = DATA_VERSION /\ local.hasPlans)

\* C14 witness: logged out over a legacy bare array, a plan was saved and the
\* slot now holds the envelope of the migrated plan and the new one
C14_Witness ==
    /\ ev.act = "SavePlan" /\ ~ev.loggedIn
    /\ plans = <<UpgradeToV2(LegacyPlan(2)), UserPlan(1)>>
    /\ local = Envelope(DATA_VERSION, plans)

\* C15: in an active session, when the remote write issued by savePlan or
\* deletePlan fails (it rejects, at once or later, or the remote answers with
\* an error), nothing is thrown to the caller, the in-memory collection stays
\* as savePlan/deletePlan updated it, and the write is not issued again: the
\* failed call is gone and remote writes are started by savePlan, deletePlan
\* and a sync's merge only.
C15_Updated(ps) ==
    {Upsert(ps, UserPlan(id)) : id \in Ids} \cup {Without(ps, id) : id \in Ids}
C15_WriteFailureIsSilent ==
    [][/\ ev'.act = "WriteFailed" =>
             /\ ~ev'.threw
             /\ UNCHANGED <<plans, local, files>>
             /\ Len(tasks') < Len(tasks)
             /\ \A j \in DOMAIN tasks' : \E k \in DOMAIN tasks : tasks'[j] = tasks[k]
       /\ (ev'.act \in {"SavePlan", "DeletePlan"} /\ IsLoggedIn /\ RejectsAtOnce) =>
             /\ ~ev'.threw
             /\ plans' \in C15_Updated(plans)
             /\ UNCHANGED <<tasks, local, files>>
       /\ Cardinality(WritesInFlight') > Cardinality(WritesInFlight) =>
             ev'.act \in {"SavePlan", "DeletePlan"}]_vars

\* C15 witness: the write of a plan saved in an active session has just failed;
\* the plan is still in memory, not in the remote file, and no write is in flight
C15_Witness ==
    /\ ev.act = "WriteFailed" /\ IsLoggedIn
    /\ plans = <<RemotePlan(1), UserPlan(2)>>
    /\ files = << <<RemotePlan(1)>> >>
    /\ tasks = <<>>

\* C16: no remote-store request (files.list, files.get, the upload) is issued
\* carrying the token of a session that has ended, and a request issued in an
\* active session carries that session's token.
C16_RequestInFlight(t) == t.pc \in {"list", "get", "upload"}
C16_NoStaleToken ==
    \A i \in DOMAIN tasks :
        C16_RequestInFlight(tasks[i]) =>
            /\ tasks[i].tok # 0 => tasks[i].tok = tasks[i].sess
            /\ tasks[i].active => tasks[i].tok = tasks[i].sess

\* C17: the remote file is created at most once: a savePlans whose lookup by
\* name was answered creates a file only when none exists, and caches its
\* handle; every other savePlans, also one that overlaps another write or a
\* sync, overwrites the existing file.
C17_Creates(i) ==
    /\ tasks[i].pc = "upload" /\ tasks[i].fid = 0 /\ ~tasks[i].listFailed
    /\ tasks' = RemoveAt(tasks, i)
C17_CreatedAtMostOnce ==
    [][(Len(files') > Len(files) /\ \E i \in DOMAIN tasks : C17_Creates(i)) =>
          /\ files = <<>>
          /\ fileId' = 1]_vars

\* C18: plan ids are unique within the in-memory collection: started on a
\* local slot and a remote document without duplicate ids, no sequence of
\* local loads, syncs, savePlan and deletePlan leaves two plans with one id.
C18_NoDuplicates(ps) == \A i, j \in DOMAIN ps : i # j => ps[i].id # ps[j].id
C18_UniqueIds ==
    /\ C18_NoDuplicates(plans)
    /\ \A k \in DOMAIN files : C18_NoDuplicates(files[k])
    /\ \A k \in DOMAIN tasks : C18_NoDuplicates(tasks[k].payload)

\* C18 witness: savePlan on an id the collection already held replaced the
\* plan in place
C18_Witness ==
    /\ ev.act = "SavePlan"
    /\ plans = <<UserPlan(1), RemotePlan(2)>>

\* C19: when generateLearningPlan yields malformed output (null, an object
\* whose modules is no array, a value that is no object) the execution is
\* abandoned: savePlan is not called, the plan collection, the local slot and
\* currentPlan are unchanged, and the app goes back to 'setup' if it is still
\* on 'generating' and stays where it is otherwise.
C19_MalformedAbandoned ==
    [][(appEv'.act = "Generated" /\ appEv'.outcome # "plan") =>
          /\ Len(gens') = Len(gens) - 1
          /\ \A k \in DOMAIN gens' : \E j \in DOMAIN gens : gens'[k] = gens[j]
          /\ UNCHANGED <<plans, local, tasks, ops, currentPlan, planConfig>>
          /\ appState' = IF appState = "generating" THEN "setup" ELSE appState]_vars

\* C19 witness: the service answered an object without a modules array while
\* the app was waiting; the app is back on setup and nothing was saved
C19_Witness ==
    /\ appEv.act = "Generated" /\ appEv.outcome = "noModules" /\ ~appEv.left
    /\ appState = "setup"
    /\ gens = <<>> /\ plans = <<>> /\ currentPlan = <<>>

\* C20: onGoHome does not cancel a generation in flight; when a generation
\* that was left behind completes, the new plan carries the skill of the
\* configuration captured before the request, it is persisted through savePlan
\* and becomes currentPlan, and the app is on the dashboard.
C20_GenerationSurvivesGoHome ==
    /\ [][appEv'.act = "GoHome" =>
             /\ Len(gens') = Len(gens)
             /\ \A k \in DOMAIN gens :
                   /\ gens'[k].pc = gens[k].pc
                   /\ gens'[k].finalConfig = gens[k].finalConfig]_vars
    /\ [][(appEv'.act = "PlanReady" /\ appEv'.left) =>
             /\ currentPlan' = <<GeneratedPlan(ops + 1, appEv'.skill)>>
             /\ plans' = Upsert(plans, currentPlan'[1])
             /\ local' = Envelope(DATA_VERSION, plans')
             /\ ev'.act = "SavePlan"
             /\ appState' = "dashboard"
             /\ \E i \in DOMAIN gens :
                   /\ gens[i].pc = "suggestions" /\ gens[i].left
                   /\ gens[i].finalConfig.skill = appEv'.skill
                   /\ gens[i].finalConfig.configured
                   /\ gens' = RemoveAt(gens, i)]_vars

\* C20 witness: the user went home and chose another skill while the plan for
\* S1 was being generated; the S1 plan is saved, current, and the dashboard shows
C20_Witness ==
    /\ appEv.act = "PlanReady" /\ appEv.left /\ appEv.skill = "S1"
    /\ planConfig = Config("S2", FALSE)
    /\ appState = "dashboard"
    /\ currentPlan = <<GeneratedPlan(1, "S1")>>
    /\ plans = currentPlan
    /\ local = Envelope(DATA_VERSION, plans)

\* C21: when no API key is configured, the service's error is
\* 'MISSING_API_KEY' in every reachable state, no operation awaits the model,
\* and every operation called has returned its default value (null, [] or its
\* fixed message) without invoking the model.
C21_MissingKeySticks ==
    ~genAI =>
        /\ error = "MISSING_API_KEY"
        /\ calls = <<>>
        /\ gemEv # GemEvNone =>
              /\ ~gemEv.invoked
              /\ gemEv.result = Default(gemEv.op)
              /\ gemEv.result \in {"null", "[]"} \/ gemEv.op \notin
                    {"generateLearningPlan", "regeneratePlan", "convertPlanToFramework",
                     "generateQuiz", "getSkillSuggestions", "getHolisticSuggestions",
                     "findResources"}

\* C21 witness: without a key generateLearningPlan was called and returned null
C21_Witness ==
    /\ ~genAI
    /\ gemEv = GemEv("generateLearningPlan", "null", FALSE)
    /\ error = "MISSING_API_KEY"

\* C22: the progress reported for a plan with T tasks of which C are complete
\* is round(100 * C / T), the nearest integer with a tie going up, when T > 0,
\* is 0 when T = 0, and lies between 0 and 100.
C22_Rounded(c, t) == (200 * c + t) \div (2 * t)
C22_ProgressIsRounded ==
    (progress # -1 /\ planState # <<>>) =>
        /\ progress \in 0..100
        /\ planState[1].total = 0 => progress = 0
        /\ planState[1].total > 0 =>
              progress = C22_Rounded(planState[1].completed, planState[1].total)

\* C23: a sync never loses a plan: when a sync ends, also after a remote read
\* or write that failed, every plan id that the local slot or the remote
\* document held is still in the local slot or in the remote document. It is
\* stated for the executions in which the user has not called savePlan or
\* deletePlan, where only the sync itself writes the slot and the document.
C23_SlotIds(stored) ==
    IF stored.kind \in {"array", "envelope"} THEN IdsOf(stored.plans) ELSE {}
C23_RemoteIds(fs) == UNION {IdsOf(fs[k]) : k \in DOMAIN fs}
C23_SyncLosesNoPlan ==
    [][(ev'.act = "SyncDone" /\ ops = 0) =>
          (C23_SlotIds(local) \cup C23_RemoteIds(files))
              \subseteq (C23_SlotIds(local') \cup C23_RemoteIds(files'))]_vars

\* C24: a sync that ends after the session became inactive does not install
\* remote data: when a sync ends while the session is inactive and the
\* persistence effect has already run its logged-out branch, the in-memory
\* collection is afterwards what loadPlansFromLocalStorage makes of the local
\* slot (which the logged-out savePlan/deletePlan keep equal to the
\* collection).
C24_EndsInactive ==
    /\ ev'.act = "SyncDone"
    /\ ~IsLoggedIn /\ effSeen = "out"
C24_InactiveShowsLocal ==
    [][C24_EndsInactive => plans' = LoadedFromLocal(local').plans]_vars

\* C25 as stated: a mutation that overlaps a sync in flight is not lost: when
\* the sync ends, every plan passed to savePlan while it ran is in the
\* in-memory collection and no plan removed by deletePlan while it ran is.
C25_Holds(ps, plan) == \E k \in DOMAIN ps : ps[k] = plan
C25_MutationSurvivesSync ==
    [][(ev'.act = "SyncDone" /\ SyncsInFlight # {}) =>
          /\ \A id \in overlap.saved : C25_Holds(plans', UserPlan(id))
          /\ \A id \in overlap.deleted : id \notin IdsOf(plans')]_vars

\* C25: a mutation that overlaps a sync in flight is not protected: the sync
\* that ends replaces the in-memory collection, whatever it holds, by the
\* merged plans it uploaded, by the remote plans it read (or [] when the read
\* failed or no file was found), or on a failure by what the local slot holds;
\* a plan saved meanwhile stays in memory only if that data holds it, and a
\* plan deleted meanwhile is back if that data holds it.
C25_SyncReplacesCollection ==
    [][ev'.act = "SyncDone" =>
          /\ ev'.path = "merge" => plans' = TheSync.payload
          /\ ev'.path = "adopt" => plans' \in {<<>>} \cup {files[k] : k \in DOMAIN files}
          /\ ev'.path = "fallback" => plans' = LoadedFromLocal(local).plans]_vars

\* C25 witness: plan 1 was saved while the sync was reading the remote
\* document; the sync has adopted the document and plan 1 is gone from memory
C25_Witness ==
    /\ ev.act = "SyncDone" /\ ev.path = "adopt"
    /\ overlap.saved = {1}
    /\ plans = <<RemotePlan(2)>>

\* C26: in an active session in which no remote call fails, once every write
\* issued by savePlan/deletePlan has completed, the remote document holds the
\* in-memory collection, in whatever order overlapping writes completed.
C26_RemoteMatchesMemory ==
    (IsLoggedIn /\ ops > 0 /\ tasks = <<>>) =>
        /\ fileId \in DOMAIN files
        /\ files[fileId] = plans

\* C27: whenever isLoggedIn is true, the profile in `user` was fetched with
\* the access token in `tokenResponse`: no interleaving of signIn, token
\* response, profile-fetch completion and signOut pairs the profile fetched
\* for one token with a later token.
C27_ProfileMatchesToken == IsLoggedIn => user = tokenResponse

\* C28: every started syncWithRemote ends and clears the in-flight flag on
\* every path (merge, empty-local and failure fallback) when each of its remote
\* calls settles; so the flag is false whenever no sync is executing.
C28_SyncEndsAndClears ==
    /\ [](SyncsInFlight = {} => ~isMigrating)
    /\ (SyncsInFlight # {}) ~> (SyncsInFlight = {} /\ ~isMigrating)

\* a sync has ended through its catch block after its write failed, with the
\* flag cleared
C28_Witness ==
    /\ ev.act = "SyncDone"
    /\ ev.path = "fallback"
    /\ ev.wrote
    /\ SyncsInFlight = {}
    /\ ~isMigrating

\* C29: one SkillAssessmentComponent delivers assessmentComplete at most
\* once, whatever the order of submitResponse, skipAssessment, the delayed
\* emit of live mode and the component's destruction; so one assessment
\* starts at most one plan generation.
C29_EmitsAtMostOnce == assessment.emitted <= 1 /\ Len(gens) <= 1

\* C30: savePlan(p) replaces the plan with p.id at its position, leaving the
\* length unchanged, or appends p at the end when no plan has that id;
\* deletePlan(id) removes exactly the plans with that id; either way the other
\* plans and their order stay as they were, and deletePlan of an absent id
\* leaves the collection's content unchanged.
C30_Others(ps, id) == SelectSeq(ps, LAMBDA p : p.id # id)
C30_Saved(ps, qs, p) ==
    /\ IF p.id \in IdsOf(ps)
       THEN /\ Len(qs) = Len(ps)
            /\ \E k \in DOMAIN ps :
                  /\ ps[k].id = p.id
                  /\ qs[k] = p
                  /\ \A j \in DOMAIN ps \ {k} : qs[j] = ps[j]
       ELSE qs = Append(ps, p)
    /\ C30_Others(qs, p.id) = C30_Others(ps, p.id)
C30_Deleted(ps, qs, id) ==
    /\ id \notin IdsOf(qs)
    /\ C30_Others(qs, id) = C30_Others(ps, id)
    /\ id \notin IdsOf(ps) => qs = ps
C30_UpsertAndDelete ==
    [][/\ (ops' = ops + 1 /\ ev'.act = "SavePlan" /\ ~ev'.threw)
            => C30_Saved(plans, plans', UserPlan(ev'.id))
       /\ (ops' = ops + 1 /\ ev'.act = "DeletePlan" /\ ~ev'.threw)
            => C30_Deleted(plans, plans', ev'.id)]_vars

\* savePlan has just replaced a plan that is not the last of several
C30_Witness ==
    /\ ev.act = "SavePlan"
    /\ ~ev.threw
    /\ Len(plans) > 1
    /\ \E k \in 1..(Len(plans) - 1) : plans[k] = UserPlan(ev.id)

====
